---- MODULE Spec2Model ----
(***************************************************************************)
(* Wine quality prediction service: the FastAPI backend (backend/main.py), *)
(* the API dashboard (frontend/streamlit_app.py) and the standalone        *)
(* dashboard (streamlit_standalone.py).                                    *)
(*                                                                         *)
(* Scores are integers: a raw model output is counted in hundredths, a     *)
(* rounded score (one decimal place) in tenths, so 4.0 is 40 and 7.1 is 71.*)
(***************************************************************************)
EXTENDS Integers, Sequences, FiniteSets, TLC

\* ------------------------------------------------------------------ bounds
\* Intercepts of the model artifacts on disk, in tenths of a quality point.
MinTenth == 19
MaxTenth == 91
\* Longest batch sent to /predict_batch.
MaxBatch == 2

\* ------------------------------------------------------- the feature contract
\* The 11 named measurements, in the order the API declares them.
FieldOrder ==
  << "fixed_acidity", "volatile_acidity", "citric_acid", "residual_sugar",
     "chlorides", "free_sulfur_dioxide", "total_sulfur_dioxide", "density",
     "pH", "sulphates", "alcohol" >>

FieldSet == { FieldOrder[i] : i \in 1..Len(FieldOrder) }

Pos(f) == CHOOSE i \in 1..Len(FieldOrder) : FieldOrder[i] = f

\* A JSON value of a request body, as far as validation tells values apart:
\* a finite number, a non-finite float, a non-numeric value, or no value.
Num(n) == [kind |-> "num", val |-> n]
NonFinite == [kind |-> "inf", val |-> 0]
NonNumeric == [kind |-> "str", val |-> 0]
Missing == [kind |-> "missing", val |-> 0]

\* ------------------------------------------------------------ request bodies
\* Three samples with a different value at every position.
SampleA == [f \in FieldSet |-> Num(Pos(f))]
SampleB == [f \in FieldSet |-> Num(Len(FieldOrder) + 1 - Pos(f))]
SampleC == [SampleA EXCEPT !["volatile_acidity"] = Num(6),
                           !["free_sulfur_dioxide"] = Num(2)]
\* A sample that passes validation as a float and that the scaler rejects.
SampleInf == [SampleA EXCEPT !["density"] = NonFinite]

FiniteSamples == {SampleA, SampleB, SampleC}
WellTyped == FiniteSamples \cup {SampleInf}

\* SampleA with one field missing, or one field non-numeric.
Malformed ==
  { [SampleA EXCEPT ![f] = v] : f \in FieldSet, v \in {Missing, NonNumeric} }

Bodies == WellTyped \cup Malformed

\* The well-typed bodies batches are made of, and a malformed one.
BatchBodies == {SampleA, SampleB, SampleInf}
BadBody == [SampleB EXCEPT !["alcohol"] = Missing]

RECURSIVE SeqsUpTo(_, _)
SeqsUpTo(S, n) ==
  IF n = 0 THEN { <<>> }
  ELSE LET shorter == SeqsUpTo(S, n - 1)
       IN shorter \cup { Append(q, x) : q \in {r \in shorter : Len(r) = n - 1}, x \in S }

\* Every well-typed batch, and batches with the malformed body last or first.
Batches ==
  SeqsUpTo(BatchBodies, MaxBatch)
    \cup { Append(q, BadBody) : q \in SeqsUpTo({SampleA}, MaxBatch - 1) }
    \cup { <<BadBody, SampleA>> }

\* -------------------------------------------------------- the model artifacts
\* What a pickle file holds, or that the file is not there.
Absent == [loaded |-> FALSE, id |-> 0]
ModelFiles == { [loaded |-> TRUE, id |-> 10 * t] : t \in MinTenth..MaxTenth }
ScalerFiles == { [loaded |-> TRUE, id |-> k] : k \in {0, 1} }
NamesFile == [loaded |-> TRUE, id |-> 0]

\* scaler.transform: a per-feature shift; a non-finite input is rejected.
Transform(sc, features) ==
  IF \E i \in 1..Len(features) : features[i].kind # "num"
  THEN [raised |-> TRUE, v |-> <<>>]
  ELSE [raised |-> FALSE,
        v |-> [i \in 1..Len(features) |-> features[i].val - sc.id * i]]

\* model.predict(...)[0]: the raw score, in hundredths.
ModelPredict(m, scaled) ==
  m.id + scaled[Len(scaled)] - scaled[2]

\* round(prediction, 1): hundredths to tenths, a tie going to the even tenth.
Round1(raw) ==
  LET q == raw \div 10
      r == raw % 10
  IN IF r < 5 THEN q
     ELSE IF r > 5 THEN q + 1
     ELSE IF q % 2 = 0 THEN q ELSE q + 1

VARIABLES model, scaler, feature_names, st_model, st_scaler, st_feature_names,
          out, memo

vars == << model, scaler, feature_names, st_model, st_scaler, st_feature_names,
           out, memo >>

\* ------------------------------------------------------------------ loading
\* backend/main.py, module level: the three files are opened in turn inside one
\* try; the first missing file leaves its name and the later ones undefined.
LoadBackend(mf, sf, nf) ==
  IF ~mf.loaded THEN [model |-> Absent, scaler |-> Absent, feature_names |-> Absent]
  ELSE IF ~sf.loaded THEN [model |-> mf, scaler |-> Absent, feature_names |-> Absent]
  ELSE IF ~nf.loaded THEN [model |-> mf, scaler |-> sf, feature_names |-> Absent]
  ELSE [model |-> mf, scaler |-> sf, feature_names |-> nf]

\* streamlit_standalone.py, load_model: each file is looked up on its own, and
\* nothing is returned unless both the model and the scaler were found.
load_model(mf, sf, nf) ==
  IF ~mf.loaded \/ ~sf.loaded
  THEN [model |-> Absent, scaler |-> Absent, feature_names |-> Absent]
  ELSE [model |-> mf, scaler |-> sf, feature_names |-> nf]

\* ------------------------------------------------------------ input validation
\* WineFeatures with the fields optional: a missing field passes validation.
WineFeaturesOptional(body) ==
  \A f \in FieldSet : body[f].kind \in {"num", "inf", "missing"}

\* WineFeatures: eleven required float fields, none with a default.
WineFeatures(body) ==
  \A f \in FieldSet : body[f].kind \in {"num", "inf"}

\* ---------------------------------------------------------------- /predict
PredictFeatures(wine_data) ==
  << wine_data["fixed_acidity"],
     wine_data["volatile_acidity"],
     wine_data["citric_acid"],
     wine_data["residual_sugar"],
     wine_data["chlorides"],
     wine_data["free_sulfur_dioxide"],
     wine_data["total_sulfur_dioxide"],
     wine_data["density"],
     wine_data["pH"],
     wine_data["sulphates"],
     wine_data["alcohol"] >>

\* CategoryPredict with the bounds compared by < where the code has <=.
CategoryPredictStrict(prediction) ==
  IF prediction < 40 THEN "Poor"
  ELSE IF prediction < 50 THEN "Fair"
  ELSE IF prediction < 60 THEN "Good"
  ELSE IF prediction < 70 THEN "Very Good"
  ELSE "Excellent"

CategoryPredict(prediction) ==
  IF prediction <= 40 THEN "Poor"
  ELSE IF prediction <= 50 THEN "Fair"
  ELSE IF prediction <= 60 THEN "Good"
  ELSE IF prediction <= 70 THEN "Very Good"
  ELSE "Excellent"

\* ConfidencePredict with the label list running over the whole 3-9 range.
ConfidencePredictNine(prediction) ==
  IF prediction \in {30, 40, 50, 60, 70, 80, 90} THEN "High" ELSE "Medium"

ConfidencePredict(prediction) ==
  IF prediction \in {30, 40, 50, 60, 70, 80} THEN "High" ELSE "Medium"

\* PredictClassify with the category taken from the raw score, before rounding.
PredictClassifyRaw(raw) ==
  LET prediction == Round1(raw)
  IN [predicted_quality |-> prediction,
      quality_category |->
        IF raw <= 400 THEN "Poor"
        ELSE IF raw <= 500 THEN "Fair"
        ELSE IF raw <= 600 THEN "Good"
        ELSE IF raw <= 700 THEN "Very Good"
        ELSE "Excellent",
      confidence |-> ConfidencePredict(prediction)]

\* Round, then classify the rounded score.
PredictClassify(raw) ==
  LET prediction == Round1(raw)
  IN [predicted_quality |-> prediction,
      quality_category |-> CategoryPredict(prediction),
      confidence |-> ConfidencePredict(prediction)]

\* The body of the handler's try block: the exception it raises, if any, the
\* vectors it assembled and the response it builds.
PredictTry(m, sc, wine_data) ==
  LET features == PredictFeatures(wine_data)
  IN IF ~sc.loaded
     THEN [exc |-> "NameError", features |-> <<features>>, result |-> <<>>]
     ELSE LET t == Transform(sc, features)
          IN IF t.raised
             THEN [exc |-> "ValueError", features |-> <<features>>, result |-> <<>>]
             ELSE IF ~m.loaded
             THEN [exc |-> "NameError", features |-> <<features>>, result |-> <<>>]
             ELSE [exc |-> "none", features |-> <<features>>,
                   result |-> << PredictClassify(ModelPredict(m, t.v)) >>]

\* The response of POST /predict to a request body.
predict_wine_quality(m, sc, body) ==
  IF ~WineFeatures(body)
  THEN [endpoint |-> "/predict", request |-> <<body>>, status |-> 422,
        detail |-> "validation", features |-> <<>>, result |-> <<>>,
        count |-> 0, tier |-> "", model_loaded |-> FALSE]
  ELSE LET r == PredictTry(m, sc, body)
       IN [endpoint |-> "/predict", request |-> <<body>>,
           status |-> IF r.exc = "none" THEN 200 ELSE 500,
           detail |-> r.exc, features |-> r.features, result |-> r.result,
           count |-> 0, tier |-> "", model_loaded |-> FALSE]

\* ------------------------------------------------------------ /predict_batch
\* BatchFeatures with pH and sulphates in each other's place.
BatchFeaturesSwapped(wine_data) ==
  << wine_data["fixed_acidity"],
     wine_data["volatile_acidity"],
     wine_data["citric_acid"],
     wine_data["residual_sugar"],
     wine_data["chlorides"],
     wine_data["free_sulfur_dioxide"],
     wine_data["total_sulfur_dioxide"],
     wine_data["density"],
     wine_data["sulphates"],
     wine_data["pH"],
     wine_data["alcohol"] >>

BatchFeatures(wine_data) ==
  << wine_data["fixed_acidity"],
     wine_data["volatile_acidity"],
     wine_data["citric_acid"],
     wine_data["residual_sugar"],
     wine_data["chlorides"],
     wine_data["free_sulfur_dioxide"],
     wine_data["total_sulfur_dioxide"],
     wine_data["density"],
     wine_data["pH"],
     wine_data["sulphates"],
     wine_data["alcohol"] >>

CategoryBatch(prediction) ==
  IF prediction <= 40 THEN "Poor"
  ELSE IF prediction <= 50 THEN "Fair"
  ELSE IF prediction <= 60 THEN "Good"
  ELSE IF prediction <= 70 THEN "Very Good"
  ELSE "Excellent"

\* One pass of the loop body: the entry appended to predictions.
BatchClassify(raw) ==
  LET prediction == Round1(raw)
  IN [predicted_quality |-> prediction,
      quality_category |-> CategoryBatch(prediction)]

\* BatchAppend putting the new entry first.
BatchPrepend(predictions, entry) == <<entry>> \o predictions

\* predictions.append(...)
BatchAppend(predictions, entry) == Append(predictions, entry)

\* The for loop from sample i on; an exception leaves the loop at once.
RECURSIVE BatchLoop(_, _, _, _, _, _)
BatchLoop(m, sc, wine_samples, i, assembled, predictions) ==
  IF i > Len(wine_samples)
  THEN [exc |-> "none", features |-> assembled, predictions |-> predictions]
  ELSE LET features == BatchFeatures(wine_samples[i])
           seen == Append(assembled, features)
       IN IF ~sc.loaded
          THEN [exc |-> "NameError", features |-> seen, predictions |-> predictions]
          ELSE LET t == Transform(sc, features)
               IN IF t.raised
                  THEN [exc |-> "ValueError", features |-> seen,
                        predictions |-> predictions]
                  ELSE IF ~m.loaded
                  THEN [exc |-> "NameError", features |-> seen,
                        predictions |-> predictions]
                  ELSE BatchLoop(m, sc, wine_samples, i + 1, seen,
                         BatchAppend(predictions,
                                     BatchClassify(ModelPredict(m, t.v))))

\* The response of POST /predict_batch to a list of request bodies.
predict_batch(m, sc, bodies) ==
  IF \E i \in 1..Len(bodies) : ~WineFeatures(bodies[i])
  THEN [endpoint |-> "/predict_batch", request |-> bodies, status |-> 422,
        detail |-> "validation", features |-> <<>>, result |-> <<>>,
        count |-> 0, tier |-> "", model_loaded |-> FALSE]
  ELSE LET r == BatchLoop(m, sc, bodies, 1, <<>>, <<>>)
       IN IF r.exc = "none"
          THEN [endpoint |-> "/predict_batch", request |-> bodies, status |-> 200,
                detail |-> "none", features |-> r.features,
                result |-> r.predictions, count |-> Len(r.predictions),
                tier |-> "", model_loaded |-> FALSE]
          ELSE [endpoint |-> "/predict_batch", request |-> bodies, status |-> 500,
                detail |-> r.exc, features |-> r.features, result |-> <<>>,
                count |-> 0, tier |-> "", model_loaded |-> FALSE]

\* ------------------------------------------------------ /health, /model_info
health_check ==
  [endpoint |-> "/health", request |-> <<>>, status |-> 200,
   detail |-> "healthy", features |-> <<>>, result |-> <<>>,
   count |-> 0, tier |-> "", model_loaded |-> TRUE]

\* get_model_info reads feature_names outside any try block.
get_model_info(names) ==
  [endpoint |-> "/model_info", request |-> <<>>,
   status |-> IF names.loaded THEN 200 ELSE 500,
   detail |-> IF names.loaded THEN "none" ELSE "NameError",
   features |-> <<>>, result |-> <<>>,
   count |-> 0, tier |-> "", model_loaded |-> FALSE]

\* ------------------------------------------------------------ API dashboard
\* A float on the wire: the digits before and after the decimal point.
JsonFloat(s) == [int |-> s \div 10, frac |-> s % 10]
ParseFloat(j) == j.int * 10 + j.frac

\* TierDashboard with the bounds compared by < where the code has <=.
TierDashboardStrict(quality_score) ==
  IF quality_score < 40 THEN "Poor"
  ELSE IF quality_score < 50 THEN "Fair"
  ELSE IF quality_score < 60 THEN "Good"
  ELSE IF quality_score < 70 THEN "Very Good"
  ELSE "Excellent"

TierDashboard(quality_score) ==
  IF quality_score <= 40 THEN "Poor"
  ELSE IF quality_score <= 50 THEN "Fair"
  ELSE IF quality_score <= 60 THEN "Good"
  ELSE IF quality_score <= 70 THEN "Very Good"
  ELSE "Excellent"

\* The button handler: post the widgets' values to /predict and show the answer.
DashboardButton(m, sc, wine_data) ==
  LET response == predict_wine_quality(m, sc, wine_data)
  IN IF response.status = 200
     THEN LET quality_score ==
                ParseFloat(JsonFloat(response.result[1].predicted_quality))
          IN [response EXCEPT !.endpoint = "dashboard",
                              !.tier = TierDashboard(quality_score)]
     ELSE [response EXCEPT !.endpoint = "dashboard", !.detail = "API Error"]

\* ------------------------------------------------------ standalone dashboard
StandaloneFeatures(wine_data) ==
  << wine_data["fixed_acidity"],
     wine_data["volatile_acidity"],
     wine_data["citric_acid"],
     wine_data["residual_sugar"],
     wine_data["chlorides"],
     wine_data["free_sulfur_dioxide"],
     wine_data["total_sulfur_dioxide"],
     wine_data["density"],
     wine_data["pH"],
     wine_data["sulphates"],
     wine_data["alcohol"] >>

CategoryStandalone(prediction) ==
  IF prediction <= 40 THEN "Poor"
  ELSE IF prediction <= 50 THEN "Fair"
  ELSE IF prediction <= 60 THEN "Good"
  ELSE IF prediction <= 70 THEN "Very Good"
  ELSE "Excellent"

ConfidenceStandalone(prediction) ==
  IF prediction \in {30, 40, 50, 60, 70, 80} THEN "High" ELSE "Medium"

TierStandalone(prediction) ==
  IF prediction <= 40 THEN "Poor"
  ELSE IF prediction <= 50 THEN "Fair"
  ELSE IF prediction <= 60 THEN "Good"
  ELSE IF prediction <= 70 THEN "Very Good"
  ELSE "Excellent"

StandaloneClassify(raw) ==
  LET prediction == Round1(raw)
  IN [predicted_quality |-> prediction,
      quality_category |-> CategoryStandalone(prediction),
      confidence |-> ConfidenceStandalone(prediction)]

\* The button handler of the standalone dashboard.
StandaloneButton(m, sc, wine_data) ==
  LET features == StandaloneFeatures(wine_data)
      t == Transform(sc, features)
  IN IF t.raised
     THEN [endpoint |-> "standalone", request |-> <<wine_data>>, status |-> 500,
           detail |-> "Prediction Error", features |-> <<features>>,
           result |-> <<>>, count |-> 0, tier |-> "", model_loaded |-> FALSE]
     ELSE LET shown == StandaloneClassify(ModelPredict(m, t.v))
          IN [endpoint |-> "standalone", request |-> <<wine_data>>,
              status |-> 200, detail |-> "none", features |-> <<features>>,
              result |-> <<shown>>, count |-> 0,
              tier |-> TierStandalone(shown.predicted_quality),
              model_loaded |-> FALSE]

\* The script run when load_model returned nothing: st.stop() ends it before
\* any widget is drawn.
StandaloneStop ==
  [endpoint |-> "standalone", request |-> <<>>, status |-> 0,
   detail |-> "stopped", features |-> <<>>, result |-> <<>>,
   count |-> 0, tier |-> "", model_loaded |-> FALSE]

\* ------------------------------------------------------------ the state machine
Idle ==
  [endpoint |-> "", request |-> <<>>, status |-> 0, detail |-> "",
   features |-> <<>>, result |-> <<>>, count |-> 0, tier |-> "",
   model_loaded |-> FALSE]

\* Both processes have started: each has loaded what it found on disk.
Init ==
  \E mf \in ModelFiles \cup {Absent}, sf \in ScalerFiles \cup {Absent},
     nf \in {NamesFile, Absent} :
    /\ model = LoadBackend(mf, sf, nf).model
    /\ scaler = LoadBackend(mf, sf, nf).scaler
    /\ feature_names = LoadBackend(mf, sf, nf).feature_names
    /\ st_model = load_model(mf, sf, nf).model
    /\ st_scaler = load_model(mf, sf, nf).scaler
    /\ st_feature_names = load_model(mf, sf, nf).feature_names
    /\ out = Idle
    /\ memo = [request |-> <<>>, result |-> <<>>]

\* No request handler assigns a global of its process.
Globals ==
  << model, scaler, feature_names, st_model, st_scaler, st_feature_names >>

\* The first successful answer of /predict, with the sample it was given for.
Remember(response) ==
  IF /\ response.status = 200
     /\ memo.request = <<>>
  THEN [request |-> response.request, result |-> response.result]
  ELSE memo

Predict ==
  \E body \in Bodies :
    /\ out' = predict_wine_quality(model, scaler, body)
    /\ memo' = Remember(out')
    /\ UNCHANGED Globals

\* PredictBatch with the scaler refitted by the request (fit_transform for
\* transform): the handler leaves another scaler behind.
PredictBatchRefit ==
  \E bodies \in Batches :
    /\ out' = predict_batch(model, scaler, bodies)
    /\ scaler' = IF scaler.loaded /\ Len(bodies) > 0
                 THEN [scaler EXCEPT !.id = 1 - scaler.id] ELSE scaler
    /\ UNCHANGED << model, feature_names, st_model, st_scaler, st_feature_names,
                    memo >>

PredictBatch ==
  \E bodies \in Batches :
    /\ out' = predict_batch(model, scaler, bodies)
    /\ UNCHANGED << Globals, memo >>

Health ==
  /\ out' = health_check
  /\ UNCHANGED << Globals, memo >>

ModelInfo ==
  /\ out' = get_model_info(feature_names)
  /\ UNCHANGED << Globals, memo >>

DashboardClick ==
  \E wine_data \in FiniteSamples :
    /\ out' = DashboardButton(model, scaler, wine_data)
    /\ UNCHANGED << Globals, memo >>

StandaloneClick ==
  /\ st_model.loaded
  /\ \E wine_data \in FiniteSamples :
       out' = StandaloneButton(st_model, st_scaler, wine_data)
  /\ UNCHANGED << Globals, memo >>

StandaloneStopped ==
  /\ ~st_model.loaded
  /\ out' = StandaloneStop
  /\ UNCHANGED << Globals, memo >>

Next ==
  \/ Predict
  \/ PredictBatch
  \/ Health
  \/ ModelInfo
  \/ DashboardClick
  \/ StandaloneClick
  \/ StandaloneStopped

Spec == Init /\ [][Next]_vars

\* ------------------------------------------------------------------ properties
\* The categories the table of the specification gives a rounded score:
\* s <= 4 Poor, 4 < s <= 5 Fair, 5 < s <= 6 Good, 6 < s <= 7 Very Good,
\* s > 7 Excellent.
Tabulated(s) ==
  (IF s <= 40 THEN {"Poor"} ELSE {})
    \cup (IF 40 < s /\ s <= 50 THEN {"Fair"} ELSE {})
    \cup (IF 50 < s /\ s <= 60 THEN {"Good"} ELSE {})
    \cup (IF 60 < s /\ s <= 70 THEN {"Very Good"} ELSE {})
    \cup (IF 70 < s THEN {"Excellent"} ELSE {})

IntegerLabels == {30, 40, 50, 60, 70, 80}

Answered(endpoints) == out.endpoint \in endpoints /\ out.status = 200

\* C1: every score /predict returns carries exactly one category, the one the
\* table gives it; 4.0 is Poor, 4.1 is Fair, 7.0 is Very Good, 7.1 is Excellent.
C1_CategoryAsTabulated ==
  Answered({"/predict"}) =>
    LET r == out.result[1]
        s == r.predicted_quality
    IN /\ Tabulated(s) = {r.quality_category}
       /\ (s = 40 => r.quality_category = "Poor")
       /\ (s = 41 => r.quality_category = "Fair")
       /\ (s = 70 => r.quality_category = "Very Good")
       /\ (s = 71 => r.quality_category = "Excellent")
       /\ (s < 30 => r.quality_category = "Poor")
       /\ (s > 80 => r.quality_category = "Excellent")

C1_Witness ==
  /\ Answered({"/predict"})
  /\ out.result[1].predicted_quality = 41
  /\ out.result[1].quality_category = "Fair"

\* C2: the confidence /predict returns is High exactly when the rounded score is
\* one of 3.0, 4.0, 5.0, 6.0, 7.0, 8.0, and Medium for every other score.
C2_ConfidenceHighIff ==
  Answered({"/predict"}) =>
    LET r == out.result[1]
    IN /\ r.confidence \in {"High", "Medium"}
       /\ (r.confidence = "High") <=> (r.predicted_quality \in IntegerLabels)
       /\ (r.predicted_quality \in {20, 65, 90} => r.confidence = "Medium")

C2_Witness ==
  /\ Answered({"/predict"})
  /\ out.result[1].predicted_quality = 90
  /\ out.result[1].confidence = "Medium"

WellTypedRequest == \A i \in 1..Len(out.request) : WineFeatures(out.request[i])

\* C3: while the scaler or the model is absent, every call to /predict and to
\* /predict_batch is answered with the model-unavailable error and no score, and
\* the standalone dashboard computes no prediction unless load_model returned
\* both a model and a scaler.
C3_AbsentAlwaysUnavailable ==
  /\ ( /\ ~model.loaded \/ ~scaler.loaded
       /\ out.endpoint \in {"/predict", "/predict_batch"}
       /\ WellTypedRequest )
     => (out.status = 500 /\ out.detail = "NameError" /\ out.result = <<>>)
  /\ ( /\ ~st_model.loaded \/ ~st_scaler.loaded
       /\ out.endpoint = "standalone" )
     => out.result = <<>>

\* The score /predict gives a body in the current state, or none.
Single(body) == predict_wine_quality(model, scaler, body)

\* C4: /predict_batch over N samples that are all valid and all evaluate returns
\* N results, the i-th for the i-th sample, and count N; if any sample is invalid
\* or fails to evaluate it returns an error and none of the results computed.
C4_BatchAllOrNothing ==
  out.endpoint = "/predict_batch" =>
    LET n == Len(out.request)
    IN IF \A i \in 1..n : Single(out.request[i]).status = 200
       THEN /\ out.status = 200
            /\ Len(out.result) = n
            /\ out.count = n
            /\ \A i \in 1..n :
                 out.result[i].predicted_quality =
                   Single(out.request[i]).result[1].predicted_quality
       ELSE /\ out.status \in {422, 500}
            /\ out.result = <<>>
            /\ out.count = 0

C4_Witness ==
  /\ Answered({"/predict_batch"})
  /\ Len(out.request) = 2
  /\ out.count = 2
  /\ out.result[1].predicted_quality # out.result[2].predicted_quality

\* A batch that failed on its second sample, the first one already scored.
C4_FailFastReached ==
  /\ out.endpoint = "/predict_batch"
  /\ out.status = 500
  /\ out.detail = "ValueError"
  /\ Len(out.features) = 2
  /\ out.result = <<>>

\* C5: /predict given a sample with a field missing or non-numeric answers with
\* the invalid-input error: no crash, no default in the field's place, no score.
C5_MalformedRejected ==
  ( /\ out.endpoint = "/predict"
    /\ \E f \in FieldSet : out.request[1][f].kind \in {"missing", "str"} )
  => /\ out.status = 422
     /\ out.detail = "validation"
     /\ out.features = <<>>
     /\ out.result = <<>>

C5_Witness ==
  /\ out.endpoint = "/predict"
  /\ out.request[1]["pH"].kind = "missing"
  /\ out.status = 422

\* C6: each element of the /predict_batch result is what /predict returns for
\* the same sample: the same rounded score, category and confidence label.
C6_BatchElementIsPredictResult ==
  Answered({"/predict_batch"}) =>
    \A i \in 1..Len(out.result) :
      LET e == out.result[i]
          p == Single(out.request[i]).result[1]
      IN /\ e.predicted_quality = p.predicted_quality
         /\ e.quality_category = p.quality_category
         /\ "confidence" \in DOMAIN e
         /\ e.confidence = p.confidence

\* C7: /predict answers a sample as it answered it the first time, whatever
\* requests were handled in between (the API dashboard's button is such a call).
C7_Deterministic ==
  ( /\ Answered({"/predict", "dashboard"})
    /\ out.request = memo.request )
  => out.result = memo.result

C7_Witness ==
  /\ Answered({"dashboard"})
  /\ out.request = memo.request
  /\ out.result = memo.result

\* The raw score of a body under a model and a scaler, in hundredths.
RawScore(m, sc, body) ==
  ModelPredict(m, Transform(sc, [i \in 1..Len(FieldOrder) |-> body[FieldOrder[i]]]).v)

\* C8: in /predict, /predict_batch and the standalone dashboard the returned
\* score is the raw score rounded to one decimal place, and the category and the
\* confidence are those of the rounded score, not of the raw one.
C8_ClassifiedFromRounded ==
  Answered({"/predict", "/predict_batch", "standalone"}) =>
    \A i \in 1..Len(out.result) :
      LET r == out.result[i]
          s == r.predicted_quality
          raw == IF out.endpoint = "standalone"
                 THEN RawScore(st_model, st_scaler, out.request[i])
                 ELSE RawScore(model, scaler, out.request[i])
      IN /\ 10 * s - raw \in -5..5
         /\ Tabulated(s) = {r.quality_category}
         /\ "confidence" \in DOMAIN r =>
              ((r.confidence = "High") <=> (s \in IntegerLabels))
         /\ (s = 40 /\ "confidence" \in DOMAIN r) =>
              (r.quality_category = "Poor" /\ r.confidence = "High")

C8_Witness ==
  /\ Answered({"/predict"})
  /\ RawScore(model, scaler, out.request[1]) > 400
  /\ out.result[1].predicted_quality = 40
  /\ out.result[1].quality_category = "Poor"
  /\ out.result[1].confidence = "High"

\* C9: /predict, /predict_batch and the standalone dashboard each assemble a
\* vector of length 11 holding the sample's values in the order fixed acidity,
\* volatile acidity, citric acid, residual sugar, chlorides, free sulfur dioxide,
\* total sulfur dioxide, density, pH, sulphates, alcohol.
C9_FeatureOrderFixed ==
  /\ out.endpoint \in {"/predict", "/predict_batch", "standalone", "dashboard"}
       => \A k \in 1..Len(out.features) :
            /\ Len(out.features[k]) = 11
            /\ \A i \in 1..11 : out.features[k][i] = out.request[k][FieldOrder[i]]
  /\ Answered({"/predict", "standalone"}) => Len(out.features) = 1
  /\ Answered({"/predict_batch"}) => Len(out.features) = Len(out.request)

C9_Witness ==
  /\ Answered({"/predict_batch"})
  /\ Len(out.features) = 2
  /\ out.features[1] # out.features[2]

\* C10: the copies of the category rule agree on every rounded score: the tier
\* of the API dashboard, the tier and the category of the standalone dashboard,
\* the category of /predict and that of /predict_batch are one and the same of
\* Poor, Fair, Good, Very Good, Excellent.
C10_CategoryCopiesAgree ==
  /\ Answered({"/predict", "/predict_batch", "standalone", "dashboard"}) =>
       \A i \in 1..Len(out.result) :
         LET s == out.result[i].predicted_quality
             c == out.result[i].quality_category
         IN /\ c \in {"Poor", "Fair", "Good", "Very Good", "Excellent"}
            /\ CategoryPredict(s) = c
            /\ CategoryBatch(s) = c
            /\ CategoryStandalone(s) = c
            /\ TierStandalone(s) = c
            /\ TierDashboard(ParseFloat(JsonFloat(s))) = c
  /\ Answered({"standalone", "dashboard"}) =>
       out.tier = out.result[1].quality_category

C10_Witness ==
  /\ Answered({"dashboard"})
  /\ out.result[1].predicted_quality = 70
  /\ out.tier = "Very Good"
  /\ out.result[1].quality_category = "Very Good"

\* C11: /health answers healthy with model_loaded true only in states where the
\* model and the scaler were loaded at startup: in such a state /predict on a
\* valid sample does not fail for want of the model or the scaler.
C11_HealthReflectsLoading ==
  ( /\ out.endpoint = "/health"
    /\ out.status = 200
    /\ out.detail = "healthy"
    /\ out.model_loaded )
  => /\ model.loaded
     /\ scaler.loaded
     /\ \A body \in FiniteSamples :
          predict_wine_quality(model, scaler, body).detail # "NameError"
====
